---- MODULE Spec2Model ----
(***************************************************************************)
(* A model of CanvasOAuthenticator (src/canvasoauthenticator/__init__.py): *)
(* the paginated fetch, the two group derivations, the auth-state          *)
(* assembly, the login pipeline of _token_to_auth_model, username          *)
(* normalisation and pre_spawn_start.                                      *)
(*                                                                         *)
(* JSON values are tagged records [kind, val]; a Python dict is a function *)
(* from its keys; Python's None and JSON null are the value Null.  Strings *)
(* that the code only formats or compares are TLA+ strings; usernames,     *)
(* which the code lower-cases and splits, are sequences of characters.     *)
(***************************************************************************)
EXTENDS Integers, Sequences, FiniteSets, TLC

VARIABLES
    config,       \* the authenticator's traits, fixed at construction
    canvas,       \* per attempt: what the Canvas server answers to its token
    token_info,   \* per attempt: the token response handed to the pipeline
    pc,           \* per attempt: position in the coroutine
    fetching,     \* per attempt: which call of fetch_all_pages is running
    url,          \* per attempt: fetch_all_pages' local `url`
    all_data,     \* per attempt: fetch_all_pages' local `all_data`
    profile,      \* per attempt: token_to_user's local `user_info`
    self_groups,  \* per attempt: token_to_user's local `self_groups`
    courses,      \* per attempt: token_to_user's local `courses`
    user_info,    \* per attempt: what token_to_user returned
    auth_model,   \* per attempt: what _token_to_auth_model returned
    requests,     \* per attempt: the URLs it asked httpfetch for, in order
    environment,  \* per attempt: spawner.environment
    call,         \* the arguments of a method applied on its own
    ret           \* what that method returned

loginVars == <<config, canvas, token_info, pc, fetching, url, all_data, profile,
               self_groups, courses, user_info, auth_model, requests, environment>>
pureVars == <<call, ret>>
vars == <<config, canvas, token_info, pc, fetching, url, all_data, profile,
          self_groups, courses, user_info, auth_model, requests, environment,
          call, ret>>

(***************************************************************************)
(* Bounds.                                                                 *)
(***************************************************************************)
MaxPages == 3      \* pages a server holds in the pagination specifications
MaxNameLen == 4    \* characters of a username given to normalize_username
MaxGroups == 3     \* group records given to groups_from_canvas_groups
MaxRequests == 10  \* requests of one attempt after which a pagination loop is cut

(***************************************************************************)
(* Values.                                                                 *)
(***************************************************************************)
Num(n) == [kind |-> "number", val |-> n]
Text(s) == [kind |-> "string", val |-> s]
Obj(d) == [kind |-> "object", val |-> d]
Lst(s) == [kind |-> "list", val |-> s]
Null == [kind |-> "null", val |-> 0]
EmptyDict == <<>>
NoneUrl == "<None>"
Unset == [kind |-> "unset", val |-> 0]

\* dict.get(k, default)
Get(d, k, default) == IF k \in DOMAIN d THEN d[k] ELSE default

\* bool(v) of a parsed JSON value that is not a list
Truthy(v) ==
    CASE v.kind = "null" -> FALSE
      [] v.kind = "number" -> v.val # 0
      [] v.kind = "string" -> v.val # ""
      [] v.kind = "object" -> DOMAIN v.val # {}
      [] v.kind = "list" -> Len(v.val) > 0

\* str(v)
Str(v) ==
    CASE v.kind = "number" -> ToString(v.val)
      [] v.kind = "string" -> v.val
      [] v.kind = "null" -> "None"

\* str.lower() on the context-type tags the model uses
Lower(s) ==
    CASE s = "Course" -> "course"
      [] s = "Account" -> "account"
      [] OTHER -> s

\* the orders in which a Python set may be iterated
Perms(S) ==
    {f \in [1..Cardinality(S) -> S] : \A e \in S : \E i \in DOMAIN f : f[i] = e}

NoDuplicates(s) == \A i, j \in DOMAIN s : s[i] = s[j] => i = j

Range(s) == {s[i] : i \in DOMAIN s}

(***************************************************************************)
(* format_jupyterhub_group: "::".join(map(str, terms))                     *)
(***************************************************************************)
RECURSIVE JoinTerms(_)
JoinTerms(terms) ==
    IF Len(terms) = 0 THEN ""
    ELSE IF Len(terms) = 1 THEN Str(terms[1])
    ELSE Str(terms[1]) \o "::" \o JoinTerms(Tail(terms))

format_jupyterhub_group(terms) == JoinTerms(terms)

(***************************************************************************)
(* groups_from_canvas_courses.  The result is the set of lists the method  *)
(* may return: the enrollment types of a course are iterated as a set.     *)
(***************************************************************************)
EnrollmentTypes(course) ==
    LET enrollments == Get(course, "enrollments", <<>>)
    IN  {Get(enrollments[i], "type", Null) : i \in DOMAIN enrollments}

CourseGroups(course, course_key) ==
    LET course_id == Get(course, course_key, Null)
    IN  IF course_id = Null THEN {<<>>}
        ELSE {<<format_jupyterhub_group(<<Text("course"), course_id>>)>> \o
              [i \in DOMAIN order |->
                 format_jupyterhub_group(<<Text("course"), course_id,
                                           Text("enrollment_type"), order[i]>>)]
              : order \in Perms(EnrollmentTypes(course))}

RECURSIVE groups_from_canvas_courses(_, _)
groups_from_canvas_courses(cs, course_key) ==
    IF Len(cs) = 0 THEN {<<>>}
    ELSE {h \o t : h \in CourseGroups(cs[1].val, course_key),
                   t \in groups_from_canvas_courses(Tail(cs), course_key)}

(***************************************************************************)
(* groups_from_canvas_groups.  A record with a name and no context_type    *)
(* makes `group.get("context_type").lower()` raise; otherwise the result is *)
(* the set of lists list(groups) may be.                                   *)
(***************************************************************************)
GroupIdentifier(group) ==
    LET name == group["name"]
        context_type == Lower(group["context_type"].val)
        context_id_field == context_type \o "_id"
        context_id == Get(group, context_id_field, Num(0))
    IN  format_jupyterhub_group(<<Text(context_type), context_id, Text("group"), name>>)

GroupsRaises(gs) ==
    \E i \in DOMAIN gs :
        /\ "name" \in DOMAIN gs[i].val
        /\ Get(gs[i].val, "context_type", Null).kind # "string"

HasName(gs) == {i \in DOMAIN gs : "name" \in DOMAIN gs[i].val}

\* the method with `groups` a list appended to, not a set
RECURSIVE GroupIdentifierList(_)
GroupIdentifierList(gs) ==
    IF Len(gs) = 0 THEN <<>>
    ELSE (IF "name" \in DOMAIN gs[1].val THEN <<GroupIdentifier(gs[1].val)>> ELSE <<>>)
         \o GroupIdentifierList(Tail(gs))

groups_from_canvas_groups_list(gs) ==
    IF GroupsRaises(gs) THEN {} ELSE {GroupIdentifierList(gs)}

groups_from_canvas_groups(gs) ==
    IF GroupsRaises(gs) THEN {}
    ELSE Perms({GroupIdentifier(gs[i].val) : i \in HasName(gs)})

(***************************************************************************)
(* normalize_username, on sequences of characters.                         *)
(***************************************************************************)
LowerChar(c) ==
    CASE c = "A" -> "a"
      [] c = "B" -> "b"
      [] OTHER -> c

LowerSeq(s) == [i \in DOMAIN s |-> LowerChar(s[i])]

EndsWith(s, suffix) ==
    /\ Len(suffix) <= Len(s)
    /\ SubSeq(s, Len(s) - Len(suffix) + 1, Len(s)) = suffix

\* s.split("@")[0]: what precedes the first "@", all of s when it has none
SplitAtFirst(s) ==
    LET ats == {i \in DOMAIN s : s[i] = "@"}
    IN  IF ats = {} THEN s
        ELSE SubSeq(s, 1, (CHOOSE i \in ats : \A j \in ats : i <= j) - 1)

normalize_username(username, strip_email_domain) ==
    LET lowered == LowerSeq(username)
    IN  IF Len(strip_email_domain) > 0 /\ EndsWith(lowered, <<"@">> \o strip_email_domain)
        THEN SplitAtFirst(lowered)
        ELSE lowered

(***************************************************************************)
(* fetch_all_pages: what one pass of the loop does with a response.        *)
(***************************************************************************)
\* a Link header is a sequence of parts, each `<target>; rel="..."`;
\* a response without the header has the empty sequence
\* only the first part of the header looked at
NextUrlFirstPartOnly(link) ==
    IF Len(link) > 0 /\ link[1].rel = "next" THEN link[1].target ELSE NoneUrl

NextUrl(link) ==
    LET hits == {i \in DOMAIN link : link[i].rel = "next"}
    IN  IF hits = {} THEN NoneUrl
        ELSE link[CHOOSE i \in hits : \A j \in hits : i <= j].target

\* `while url:`
LoopContinues(u) == u # NoneUrl /\ u # ""

\* the accumulator overwritten by each list page
AccumulateLastPage(data, resp_data) ==
    IF resp_data.kind = "list" THEN resp_data.val
    ELSE IF Truthy(resp_data) THEN Append(data, resp_data)
    ELSE data

Accumulate(data, resp_data) ==
    IF resp_data.kind = "list" THEN data \o resp_data.val
    ELSE IF Truthy(resp_data) THEN Append(data, resp_data)
    ELSE data

\* the accumulator kept on the authenticator, one for all calls
SharedAllData(a) == all_data["a1"]

\* `all_data` is a local of the call
LocalAllData(a) == all_data[a]

(***************************************************************************)
(* build_auth_state_dict and pre_spawn_start.                              *)
(***************************************************************************)
user_auth_state_key == "canvas_user"

build_auth_state_dict(tok, info) ==
    [access_token |-> tok["access_token"],
     refresh_token |-> Get(tok, "refresh_token", Null),
     id_token |-> Get(tok, "id_token", Null),
     \* scope.split(" "); the model's token responses carry no scope or a single one
     scope |-> <<Get(tok, "scope", "")>>,
     token_response |-> tok,
     courses |-> Get(info, "courses", <<>>),
     groups |-> Get(info, "groups", <<>>)]
    @@ (user_auth_state_key :> Get(info, "user", EmptyDict))

Upper(k) ==
    CASE k = "login_id" -> "LOGIN_ID"
      [] k = "name" -> "NAME"
      [] k = "sortable_name" -> "SORTABLE_NAME"
      [] k = "primary_email" -> "PRIMARY_EMAIL"

IdentityFields == {"login_id", "name", "sortable_name", "primary_email"}

\* spawner.environment after pre_spawn_start has run on auth_state
pre_spawn_start(auth_state, env) ==
    IF auth_state = Null THEN env
    ELSE LET withToken ==
                 IF "access_token" \in DOMAIN auth_state
                 THEN ("OAUTH2_ACCESS_TOKEN" :> auth_state["access_token"]) @@ env
                 ELSE env
             copied ==
                 IF "oauth_user" \in DOMAIN auth_state
                 THEN {k \in IdentityFields : k \in DOMAIN auth_state["oauth_user"]}
                 ELSE {}
         IN  [v \in {"OAUTH2_" \o Upper(k) : k \in copied} |->
                 auth_state["oauth_user"][CHOOSE k \in copied : "OAUTH2_" \o Upper(k) = v]]
             @@ withToken

(***************************************************************************)
(* No login in progress; no method applied on its own.                     *)
(***************************************************************************)
Attempts == {"a1", "a2"}

NoLogin ==
    /\ config = Unset
    /\ canvas = [a \in Attempts |-> Unset]
    /\ token_info = [a \in Attempts |-> Unset]
    /\ pc = [a \in Attempts |-> "idle"]
    /\ fetching = [a \in Attempts |-> "none"]
    /\ url = [a \in Attempts |-> NoneUrl]
    /\ all_data = [a \in Attempts |-> <<>>]
    /\ profile = [a \in Attempts |-> Unset]
    /\ self_groups = [a \in Attempts |-> <<>>]
    /\ courses = [a \in Attempts |-> <<>>]
    /\ user_info = [a \in Attempts |-> Unset]
    /\ auth_model = [a \in Attempts |-> Unset]
    /\ requests = [a \in Attempts |-> <<>>]
    /\ environment = [a \in Attempts |-> EmptyDict]

NoCall == call = Unset /\ ret = Unset

Returned(v) == [kind |-> "returned", val |-> v]
Raised(e) == [kind |-> "raised", val |-> e]

(***************************************************************************)
(* The authenticator as constructed (__init__), and the Canvas data the    *)
(* login specification serves.                                             *)
(***************************************************************************)
canvas_url == "https://canvas/"
userdata_url == canvas_url \o "api/v1/users/self/profile"
groups_url == canvas_url \o "api/v1/users/self/groups"
courses_url == canvas_url \o "api/v1/courses"

Link(rel, target) == [rel |-> rel, target |-> target]
Page(body, link) == [body |-> body, link |-> link]

Configs ==
    [userdata_from_id_token : BOOLEAN,
     canvas_course_key : {"id", "sis_course_id"},
     strip_email_domain : {<<>>, <<"b">>},
     username_claim : {"primary_email"},
     admin_users : {{<<"a">>}}]

\* the spec's end-to-end example, spread over two pages of each collection
WorldA ==
    [profile |-> [primary_email |-> <<"A", "@", "b">>, login_id |-> <<"a">>,
                  name |-> <<"A">>],
     claims |-> [user |-> [primary_email |-> <<"A", "@", "b">>], aud |-> <<"a">>],
     pages |->
        (groups_url :> Page(
            Lst(<<Obj([name |-> Text("g1"), context_type |-> Text("Course"),
                       course_id |-> Num(101)])>>),
            <<Link("first", groups_url), Link("next", groups_url \o "?page=2")>>))
        @@ (groups_url \o "?page=2" :> Page(
            Lst(<<Obj([name |-> Text("g1"), context_type |-> Text("Course"),
                       course_id |-> Num(101)]),
                  Obj([name |-> Text("g2"), context_type |-> Text("Account"),
                       account_id |-> Num(5)])>>),
            <<Link("prev", groups_url)>>))
        @@ (courses_url :> Page(
            Lst(<<Obj([id |-> Num(101), sis_course_id |-> Text("MATH-98"),
                       enrollments |-> <<[type |-> Text("student")],
                                         [type |-> Text("teacher")],
                                         [type |-> Text("student")]>>])>>),
            <<Link("next", courses_url \o "?page=2")>>))
        @@ (courses_url \o "?page=2" :> Page(
            Lst(<<Obj([id |-> Num(102),
                       enrollments |-> <<[type |-> Text("student")]>>])>>),
            <<>>))]

\* another user's data, one page of each collection
WorldB ==
    [profile |-> [primary_email |-> <<"b", "@", "a">>, sortable_name |-> <<"b">>],
     claims |-> [aud |-> <<"a">>],
     pages |->
        (groups_url :> Page(
            Lst(<<Obj([name |-> Text("g9"), context_type |-> Text("Course")]),
                  Obj([context_type |-> Text("Course"), course_id |-> Num(202)])>>),
            <<>>))
        @@ (courses_url :> Page(
            Lst(<<Obj([id |-> Num(202), sis_course_id |-> Text("CHEM-1A"),
                       enrollments |-> <<>>])>>),
            <<Link("first", courses_url)>>))]

\* a user whose profile names no primary email and one of whose group records
\* has a name and no context type
WorldC ==
    [profile |-> [login_id |-> <<"b">>],
     claims |-> [user |-> [login_id |-> <<"b">>]],
     pages |->
        (groups_url :> Page(
            Lst(<<Obj([name |-> Text("g3")])>>),
            <<Link("next", groups_url \o "?page=2")>>))
        @@ (groups_url \o "?page=2" :> Page(Lst(<<>>), <<>>))
        @@ (courses_url :> Page(Lst(<<>>), <<>>))]

Worlds == {WorldA, WorldB, WorldC}

\* the token response of the exchange; "jwt" decodes to the world's claims
TokenInfos(a, cfg) ==
    {[access_token |-> "token-" \o a, token_type |-> "Bearer"]}
    \cup (IF cfg.userdata_from_id_token
          THEN {[access_token |-> "token-" \o a, token_type |-> "Bearer", id_token |-> t] :
                   t \in {"jwt", "garbage"}}
          ELSE {})

Init ==
    /\ config \in Configs
    /\ canvas \in [Attempts -> Worlds]
    /\ token_info \in [Attempts -> UNION {TokenInfos(a, config) : a \in Attempts}]
    /\ \A a \in Attempts : token_info[a] \in TokenInfos(a, config)
    /\ pc = [a \in Attempts |-> "start"]
    /\ fetching = [a \in Attempts |-> "none"]
    /\ url = [a \in Attempts |-> NoneUrl]
    /\ all_data = [a \in Attempts |-> <<>>]
    /\ profile = [a \in Attempts |-> Unset]
    /\ self_groups = [a \in Attempts |-> <<>>]
    /\ courses = [a \in Attempts |-> <<>>]
    /\ user_info = [a \in Attempts |-> Unset]
    /\ auth_model = [a \in Attempts |-> Unset]
    /\ requests = [a \in Attempts |-> <<>>]
    /\ environment = [a \in Attempts |-> EmptyDict]
    /\ NoCall

(***************************************************************************)
(* token_to_user.                                                          *)
(***************************************************************************)
\* httpfetch(u, ...) is issued; the coroutine is suspended until the answer
Request(a, u) == requests' = [requests EXCEPT ![a] = Append(@, u)]

\* fetch_all_pages(start, ...) is entered: its locals, then the first request
EnterFetch(a, start, which) ==
    /\ fetching' = [fetching EXCEPT ![a] = which]
    /\ all_data' = [all_data EXCEPT ![a] = <<>>]
    /\ url' = [url EXCEPT ![a] = start]
    /\ Request(a, start)
    /\ pc' = [pc EXCEPT ![a] = "await_data"]

\* lines 158-163: identity-token mode and the token response has no id token
IdTokenMissing(a) ==
    /\ pc[a] = "start"
    /\ config.userdata_from_id_token
    /\ "id_token" \notin DOMAIN token_info[a]
    /\ pc' = [pc EXCEPT ![a] = "error"]
    /\ UNCHANGED <<config, canvas, token_info, fetching, url, all_data, profile,
                   self_groups, courses, user_info, auth_model, requests, environment,
                   pureVars>>

\* lines 177-180: jwt.decode raises
IdTokenUndecodable(a) ==
    /\ pc[a] = "start"
    /\ config.userdata_from_id_token
    /\ "id_token" \in DOMAIN token_info[a]
    /\ token_info[a]["id_token"] # "jwt"
    /\ pc' = [pc EXCEPT ![a] = "error"]
    /\ UNCHANGED <<config, canvas, token_info, fetching, url, all_data, profile,
                   self_groups, courses, user_info, auth_model, requests, environment,
                   pureVars>>

\* lines 170-176: token_to_user returns the decoded claims
IdTokenDecoded(a) ==
    /\ pc[a] = "start"
    /\ config.userdata_from_id_token
    /\ "id_token" \in DOMAIN token_info[a]
    /\ token_info[a]["id_token"] = "jwt"
    /\ user_info' = [user_info EXCEPT ![a] = canvas[a].claims]
    /\ pc' = [pc EXCEPT ![a] = "assemble"]
    /\ UNCHANGED <<config, canvas, token_info, fetching, url, all_data, profile,
                   self_groups, courses, auth_model, requests, environment, pureVars>>

\* lines 182-200: user-profile mode asks for the profile
FetchProfile(a) ==
    /\ pc[a] = "start"
    /\ ~config.userdata_from_id_token
    /\ Request(a, userdata_url)
    /\ pc' = [pc EXCEPT ![a] = "await_profile"]
    /\ UNCHANGED <<config, canvas, token_info, fetching, url, all_data, profile,
                   self_groups, courses, user_info, auth_model, environment, pureVars>>

\* lines 194-202: the profile arrives; fetch_all_pages(groups_url) starts
ProfileResponse(a) ==
    /\ pc[a] = "await_profile"
    /\ profile' = [profile EXCEPT ![a] = canvas[a].profile]
    /\ EnterFetch(a, groups_url, "groups")
    /\ UNCHANGED <<config, canvas, token_info, self_groups, courses, user_info,
                   auth_model, environment, pureVars>>

\* lines 117-138: the parsed body arrives and is accumulated; the same URL is
\* asked for again, for its headers
DataResponse(a) ==
    /\ pc[a] = "await_data"
    /\ all_data' = [all_data EXCEPT ![a] =
                       Accumulate(LocalAllData(a), canvas[a].pages[url[a]].body)]
    /\ Request(a, url[a])
    /\ pc' = [pc EXCEPT ![a] = "await_link"]
    /\ UNCHANGED <<config, canvas, token_info, fetching, url, profile, self_groups,
                   courses, user_info, auth_model, environment, pureVars>>

\* lines 140-149 and 114-117: the headers arrive; the loop goes on with the next
\* URL, or fetch_all_pages returns to its caller (lines 202, 203)
LinkResponse(a) ==
    /\ pc[a] = "await_link"
    /\ Len(requests[a]) < MaxRequests
    /\ LET next_url == NextUrl(canvas[a].pages[url[a]].link)
       IN  IF LoopContinues(next_url)
           THEN /\ url' = [url EXCEPT ![a] = next_url]
                /\ Request(a, next_url)
                /\ pc' = [pc EXCEPT ![a] = "await_data"]
                /\ UNCHANGED <<fetching, all_data, self_groups, courses, ret>>
           ELSE CASE fetching[a] = "groups" ->
                       /\ self_groups' = [self_groups EXCEPT ![a] = LocalAllData(a)]
                       /\ EnterFetch(a, courses_url, "courses")
                       /\ UNCHANGED <<courses, ret>>
                  [] fetching[a] = "courses" ->
                       /\ courses' = [courses EXCEPT ![a] = LocalAllData(a)]
                       /\ url' = [url EXCEPT ![a] = next_url]
                       /\ pc' = [pc EXCEPT ![a] = "derive"]
                       /\ UNCHANGED <<fetching, all_data, self_groups, requests, ret>>
                  [] fetching[a] = "direct" ->
                       /\ ret' = Returned(LocalAllData(a))
                       /\ url' = [url EXCEPT ![a] = next_url]
                       /\ pc' = [pc EXCEPT ![a] = "returned"]
                       /\ UNCHANGED <<fetching, all_data, self_groups, courses, requests>>
    /\ UNCHANGED <<config, canvas, token_info, profile, user_info, auth_model,
                   environment, call>>

\* the failure swallowed and what was fetched so far handed back
HttpFailPartial(a) ==
    /\ pc[a] \in {"await_profile", "await_data", "await_link"}
    /\ pc' = [pc EXCEPT ![a] = "error"]
    /\ auth_model' = [auth_model EXCEPT ![a] =
          [name |-> <<>>, admin |-> Null,
           auth_state |-> build_auth_state_dict(token_info[a],
                              [user |-> profile[a], courses |-> all_data[a]])]]
    /\ UNCHANGED <<config, canvas, token_info, fetching, url, all_data, profile,
                   self_groups, courses, user_info, requests, environment, pureVars>>

\* httpfetch raises (a non-success answer): the exception leaves token_to_user
\* and _token_to_auth_model, which catch nothing
HttpFail(a) ==
    /\ pc[a] \in {"await_profile", "await_data", "await_link"}
    /\ pc' = [pc EXCEPT ![a] = "error"]
    /\ UNCHANGED <<config, canvas, token_info, fetching, url, all_data, profile,
                   self_groups, courses, user_info, auth_model, requests, environment,
                   pureVars>>

\* the two lists the other way round
ConcatGroupsReversed(course_group_names, self_group_names) ==
    self_group_names \o course_group_names

\* line 206
ConcatGroups(course_group_names, self_group_names) ==
    course_group_names \o self_group_names

\* lines 204-213: the derivation and token_to_user's result
Derive(a) ==
    /\ pc[a] = "derive"
    /\ IF GroupsRaises(self_groups[a])
       THEN /\ pc' = [pc EXCEPT ![a] = "error"]
            /\ UNCHANGED user_info
       ELSE /\ \E course_group_names \in
                      groups_from_canvas_courses(courses[a], config.canvas_course_key),
                  self_group_names \in groups_from_canvas_groups(self_groups[a]) :
                  user_info' = [user_info EXCEPT ![a] =
                      [user |-> profile[a],
                       groups |-> ConcatGroups(course_group_names, self_group_names),
                       courses |-> courses[a]]]
            /\ pc' = [pc EXCEPT ![a] = "assemble"]
    /\ UNCHANGED <<config, canvas, token_info, fetching, url, all_data, profile,
                   self_groups, courses, auth_model, requests, environment, pureVars>>

(***************************************************************************)
(* _token_to_auth_model after token_to_user has returned (lines 318-338).  *)
(* user_info_to_username is the parent class's: the value of the username  *)
(* claim, an error when the user dict has none.  No modify_auth_state_hook *)
(* is set and manage_groups is off, as by default.                         *)
(***************************************************************************)
Assemble(a) ==
    /\ pc[a] = "assemble"
    /\ LET user == Get(user_info[a], "user", EmptyDict)
       IN  IF config.username_claim \notin DOMAIN user
           THEN /\ pc' = [pc EXCEPT ![a] = "error"]
                /\ UNCHANGED auth_model
           ELSE LET username == normalize_username(user[config.username_claim],
                                                   config.strip_email_domain)
                IN  /\ auth_model' = [auth_model EXCEPT ![a] =
                          [name |-> username,
                           admin |-> IF username \in config.admin_users
                                     THEN [kind |-> "bool", val |-> TRUE] ELSE Null,
                           auth_state |-> build_auth_state_dict(token_info[a], user_info[a])]]
                    /\ pc' = [pc EXCEPT ![a] = "done"]
    /\ UNCHANGED <<config, canvas, token_info, fetching, url, all_data, profile,
                   self_groups, courses, user_info, requests, environment, pureVars>>

\* lines 347-360; user.get_auth_state() is None when the hub keeps no auth state
PreSpawnStart(a) ==
    /\ pc[a] = "done"
    /\ \E auth_state \in {auth_model[a].auth_state, Null} :
          /\ environment' = [environment EXCEPT ![a] = pre_spawn_start(auth_state, @)]
          /\ pc' = [pc EXCEPT ![a] =
                       IF auth_state = Null THEN "spawned_without_state" ELSE "spawned"]
    /\ UNCHANGED <<config, canvas, token_info, fetching, url, all_data, profile,
                   self_groups, courses, user_info, auth_model, requests, pureVars>>

Next ==
    \E a \in Attempts :
        \/ IdTokenMissing(a)
        \/ IdTokenUndecodable(a)
        \/ IdTokenDecoded(a)
        \/ FetchProfile(a)
        \/ ProfileResponse(a)
        \/ DataResponse(a)
        \/ LinkResponse(a)
        \/ HttpFail(a)
        \/ Derive(a)
        \/ Assemble(a)
        \/ PreSpawnStart(a)

Spec == Init /\ [][Next]_vars

(***************************************************************************)
(* SpecFetch, SpecFetchAny: one call of fetch_all_pages against a server   *)
(* of at most MaxPages pages that answers every request.  Page i links to  *)
(* page i+1, to nothing, or back to page 1; SpecFetch serves lists only,   *)
(* SpecFetchAny every shape of body.  The event loop resumes a coroutine   *)
(* whose answer has arrived, hence the weak fairness.                      *)
(***************************************************************************)
PageUrl(i) == "u" \o ToString(i)

RecX == Obj([id |-> Num(1)])
RecY == Obj([id |-> Num(2)])
ListBodies == {Lst(<<>>), Lst(<<RecX>>), Lst(<<RecY, RecX>>)}
AnyBodies ==
    ListBodies \cup {RecX, Obj(EmptyDict), Num(5), Num(0), Text("x"), Text(""), Null}

EndLinks == {<<>>, <<Link("prev", PageUrl(1))>>, <<Link("next", PageUrl(1))>>}
ForwardLinks(i) ==
    {<<Link("next", PageUrl(i + 1))>>,
     <<Link("first", PageUrl(1)), Link("next", PageUrl(i + 1)),
       Link("last", PageUrl(MaxPages))>>}

\* the servers whose pages i.. are as described; a page no link leads to is empty
RECURSIVE Servers(_, _, _)
Servers(i, bodies, reached) ==
    IF i > MaxPages THEN {<<>>}
    ELSE IF ~reached
    THEN {(PageUrl(i) :> Page(Lst(<<>>), <<>>)) @@ rest : rest \in Servers(i + 1, bodies, FALSE)}
    ELSE {(PageUrl(i) :> Page(b, l)) @@ rest :
             b \in bodies, l \in EndLinks, rest \in Servers(i + 1, bodies, FALSE)}
         \cup (IF i = MaxPages THEN {}
               ELSE {(PageUrl(i) :> Page(b, l)) @@ rest :
                        b \in bodies, l \in ForwardLinks(i),
                        rest \in Servers(i + 1, bodies, TRUE)})

InitFetchOn(bodies) ==
    /\ config = Unset
    /\ \E pages \in Servers(1, bodies, TRUE) :
          canvas = [a \in Attempts |-> IF a = "a1" THEN [pages |-> pages] ELSE Unset]
    /\ token_info = [a \in Attempts |-> Unset]
    /\ pc = [a \in Attempts |-> IF a = "a1" THEN "call" ELSE "idle"]
    /\ fetching = [a \in Attempts |-> "none"]
    /\ url = [a \in Attempts |-> NoneUrl]
    /\ all_data = [a \in Attempts |-> <<>>]
    /\ profile = [a \in Attempts |-> Unset]
    /\ self_groups = [a \in Attempts |-> <<>>]
    /\ courses = [a \in Attempts |-> <<>>]
    /\ user_info = [a \in Attempts |-> Unset]
    /\ auth_model = [a \in Attempts |-> Unset]
    /\ requests = [a \in Attempts |-> <<>>]
    /\ environment = [a \in Attempts |-> EmptyDict]
    /\ call = [fn |-> "fetch_all_pages", url |-> PageUrl(1)]
    /\ ret = Unset

\* lines 110-117: the call itself
CallFetchAllPages(a) ==
    /\ pc[a] = "call"
    /\ EnterFetch(a, call.url, "direct")
    /\ UNCHANGED <<config, canvas, token_info, profile, self_groups, courses, user_info,
                   auth_model, environment, pureVars>>

NextFetch ==
    \E a \in Attempts :
        \/ CallFetchAllPages(a)
        \/ DataResponse(a)
        \/ LinkResponse(a)

InitFetch == InitFetchOn(ListBodies)
SpecFetch == InitFetch /\ [][NextFetch]_vars /\ WF_vars(NextFetch)

InitFetchAny == InitFetchOn(AnyBodies)
SpecFetchAny == InitFetchAny /\ [][NextFetch]_vars /\ WF_vars(NextFetch)

(***************************************************************************)
(* SpecNorm: normalize_username applied to every username of at most       *)
(* MaxNameLen characters under every configured suffix.                    *)
(***************************************************************************)
Chars == {"a", "A", "b", "@"}
Usernames == UNION {[1..n -> Chars] : n \in 0..MaxNameLen}
Suffixes == {<<>>, <<"b">>, <<"B">>, <<"a", "b">>}

InitNorm ==
    /\ NoLogin
    /\ call \in [fn : {"normalize_username"}, username : Usernames,
                  strip_email_domain : Suffixes]
    /\ ret = Unset

NormalizeUsername ==
    /\ call.fn = "normalize_username"
    /\ ret = Unset
    /\ ret' = Returned(normalize_username(call.username, call.strip_email_domain))
    /\ UNCHANGED <<call, loginVars>>

NextNorm == NormalizeUsername

SpecNorm == InitNorm /\ [][NextNorm]_vars

(***************************************************************************)
(* SpecGroups: groups_from_canvas_groups applied to every sequence of at   *)
(* most MaxGroups group records.                                           *)
(***************************************************************************)
GroupRecords ==
    { Obj([name |-> Text("g1"), context_type |-> Text("Course"), course_id |-> Num(101)]),
      Obj([name |-> Text("g1"), context_type |-> Text("Course"), course_id |-> Num(101),
           id |-> Num(7)]),
      Obj([name |-> Text("g1"), context_type |-> Text("Account"), account_id |-> Num(101)]),
      Obj([context_type |-> Text("Course"), course_id |-> Num(101)]),
      Obj([name |-> Text("g2"), context_type |-> Text("Course")]),
      Obj([name |-> Text("g1"), context_type |-> Text("course"), course_id |-> Text("101")]),
      Obj([name |-> Text("g1")]) }

InitGroups ==
    /\ NoLogin
    /\ call \in [fn : {"groups_from_canvas_groups"},
                  self_groups : UNION {[1..n -> GroupRecords] : n \in 0..MaxGroups}]
    /\ ret = Unset

GroupsFromCanvasGroupsReturns ==
    /\ call.fn = "groups_from_canvas_groups"
    /\ ret = Unset
    /\ \E out \in groups_from_canvas_groups(call.self_groups) : ret' = Returned(out)
    /\ UNCHANGED <<call, loginVars>>

GroupsFromCanvasGroupsRaises ==
    /\ call.fn = "groups_from_canvas_groups"
    /\ ret = Unset
    /\ GroupsRaises(call.self_groups)
    /\ ret' = Raised(<<"AttributeError">>)
    /\ UNCHANGED <<call, loginVars>>

NextGroups == GroupsFromCanvasGroupsReturns \/ GroupsFromCanvasGroupsRaises

SpecGroups == InitGroups /\ [][NextGroups]_vars

\* the lower-cased username without its trailing "@suffix"
C3_Claimed(username, suffix) ==
    LET lowered == LowerSeq(username)
    IN  IF Len(suffix) > 0 /\ EndsWith(lowered, <<"@">> \o suffix)
        THEN SubSeq(lowered, 1, Len(lowered) - Len(suffix) - 1)
        ELSE lowered

(***************************************************************************)
(* C3: normalize_username lower-cases the username and, when a suffix is    *)
(* configured and the lower-cased username ends with "@" + suffix, returns *)
(* it with exactly that trailing "@suffix" removed, everything before it   *)
(* kept, earlier "@" included; otherwise the lower-cased username.         *)
(***************************************************************************)
C3_StripsExactlyTheSuffix ==
    (call.fn = "normalize_username" /\ ret.kind = "returned")
        => ret.val = C3_Claimed(call.username, call.strip_email_domain)

\* the identifier a named record stands for
C7_Identifier(g) ==
    LET ct == Lower(g["context_type"].val)
        idField == ct \o "_id"
    IN  ct \o "::" \o (IF idField \in DOMAIN g THEN Str(g[idField]) ELSE "0")
           \o "::group::" \o Str(g["name"])

(***************************************************************************)
(* C7: groups_from_canvas_groups returns no identifier twice, whatever     *)
(* tuples the input repeats; a record without a name contributes nothing   *)
(* and a record with a name contributes                                    *)
(* "{context_type lower-cased}::{context id, or 0}::group::{name}".        *)
(***************************************************************************)
C7_NoDuplicateGroupIdentifiers ==
    (call.fn = "groups_from_canvas_groups" /\ ret.kind = "returned")
        => /\ NoDuplicates(ret.val)
           /\ Range(ret.val) =
                  {C7_Identifier(call.self_groups[i].val) : i \in HasName(call.self_groups)}

C7_Witness ==
    /\ call.fn = "groups_from_canvas_groups"
    /\ ret.kind = "returned"
    /\ \E i, j \in HasName(call.self_groups) :
           i # j /\ call.self_groups[i] = call.self_groups[j]
    /\ \E i \in DOMAIN call.self_groups : i \notin HasName(call.self_groups)
    /\ Len(ret.val) < Cardinality(HasName(call.self_groups))

(***************************************************************************)
(* A chain of pages: the pages met from the                                *)
(* start URL by following each page's rel="next" link.                     *)
(***************************************************************************)
DeclaresNext(page) == \E i \in DOMAIN page.link : page.link[i].rel = "next"

DeclaredNext(page) ==
    page.link[CHOOSE i \in DOMAIN page.link : page.link[i].rel = "next"].target

\* the chain's URLs, cut after `fuel` pages
RECURSIVE ChainFrom(_, _, _)
ChainFrom(pages, u, fuel) ==
    IF fuel = 0 THEN <<>>
    ELSE IF DeclaresNext(pages[u])
    THEN <<u>> \o ChainFrom(pages, DeclaredNext(pages[u]), fuel - 1)
    ELSE <<u>>

\* the chain ends: some page of it declares no next link
FiniteChain(pages, u) ==
    LET chain == ChainFrom(pages, u, Cardinality(DOMAIN pages))
    IN  ~DeclaresNext(pages[chain[Len(chain)]])

RECURSIVE ConcatLists(_, _)
ConcatLists(pages, chain) ==
    IF Len(chain) = 0 THEN <<>>
    ELSE pages[chain[1]].body.val \o ConcatLists(pages, Tail(chain))

\* every URL of the chain twice in a row: once for the body, once for the headers
RECURSIVE Twice(_)
Twice(chain) ==
    IF Len(chain) = 0 THEN <<>>
    ELSE <<chain[1], chain[1]>> \o Twice(Tail(chain))

FetchReturned == pc["a1"] = "returned"
FetchPages == canvas["a1"].pages
FetchChain == ChainFrom(FetchPages, call.url, Cardinality(DOMAIN FetchPages))

(***************************************************************************)
(* C2: on a chain of N pages of list bodies, fetch_all_pages returns the   *)
(* records of page 1, ..., page N concatenated in that order, and asks for *)
(* the chain's URLs in chain order (each twice in a row: body, headers).   *)
(***************************************************************************)
C2_ReturnsConcatenation ==
    FetchReturned =>
        /\ ret.val = ConcatLists(FetchPages, FetchChain)
        /\ requests["a1"] = Twice(FetchChain)

C2_Witness ==
    /\ FetchReturned
    /\ Len(FetchChain) = 3
    /\ \A i \in 1..3 : Len(FetchPages[FetchChain[i]].body.val) > 0
    /\ FetchPages[FetchChain[1]].body # FetchPages[FetchChain[2]].body

\* the pages asked for all declare a next link, but the last one
C8_ReturnedAtLastPage ==
    FetchReturned =>
        /\ \A i \in DOMAIN requests["a1"] :
              DeclaresNext(FetchPages[requests["a1"][i]]) <=> i < Len(requests["a1"]) - 1
        /\ ~DeclaresNext(FetchPages[call.url]) => requests["a1"] = <<call.url, call.url>>

(***************************************************************************)
(* C8: the loop ends exactly at a page that declares no rel="next" link:   *)
(* it has returned only after asking for such a page and for no page after *)
(* it, a first page without the link ends it after that one page, on a     *)
(* chain that ends it eventually returns, and on a chain that cycles it    *)
(* never returns.                                                          *)
(***************************************************************************)
C8_TerminatesExactlyWithoutNext ==
    /\ []C8_ReturnedAtLastPage
    /\ FiniteChain(FetchPages, call.url) => <>FetchReturned
    /\ ~FiniteChain(FetchPages, call.url) => [](~FetchReturned)

C8_Witness ==
    /\ FetchReturned
    /\ Len(requests["a1"]) >= 4

\* the records by the shape of each body
RECURSIVE C9_Claimed(_, _)
C9_Claimed(pages, chain) ==
    IF Len(chain) = 0 THEN <<>>
    ELSE LET body == pages[chain[1]].body
         IN  (CASE body.kind = "list" -> body.val
                [] body.kind = "object" -> <<body>>
                [] OTHER -> <<>>)
             \o C9_Claimed(pages, Tail(chain))

(***************************************************************************)
(* C9: a list body extends the accumulated records, a single-object body   *)
(* is appended as one record, and any other body leaves them unchanged;    *)
(* in every case pagination goes on with the page's next link.             *)
(***************************************************************************)
C9_BodyShapes ==
    FetchReturned =>
        /\ ret.val = C9_Claimed(FetchPages, FetchChain)
        /\ requests["a1"] = Twice(FetchChain)

(***************************************************************************)
(* What an attempt is to fetch: the records of each collection's chain.    *)
(***************************************************************************)
Finished(a) == pc[a] \in {"done", "spawned", "spawned_without_state"}
ProfileMode == ~config.userdata_from_id_token

ChainOf(a, start) == ChainFrom(canvas[a].pages, start, Cardinality(DOMAIN canvas[a].pages))
RecordsOf(a, start) == ConcatLists(canvas[a].pages, ChainOf(a, start))

IsPrefix(s, t) == Len(s) <= Len(t) /\ SubSeq(t, 1, Len(s)) = s

(***************************************************************************)
(* C1: after a successful login in user-profile mode the group list of     *)
(* token_to_user's result and of the auth-state snapshot is the            *)
(* identifiers groups_from_canvas_courses derives from the fetched courses *)
(* followed by those groups_from_canvas_groups derives from the fetched    *)
(* memberships, although the memberships are fetched first.                *)
(***************************************************************************)
C1_CourseGroupsFirst ==
    \A a \in Attempts :
        (ProfileMode /\ Finished(a)) =>
            \E cg \in groups_from_canvas_courses(RecordsOf(a, courses_url),
                                                 config.canvas_course_key),
               sg \in groups_from_canvas_groups(RecordsOf(a, groups_url)) :
                /\ user_info[a]["groups"] = cg \o sg
                /\ auth_model[a].auth_state["groups"] = cg \o sg

C1_Witness ==
    /\ ProfileMode
    /\ config.canvas_course_key = "id"
    /\ pc["a1"] = "done"
    /\ auth_model["a1"].auth_state["groups"] =
          <<"course::101", "course::101::enrollment_type::teacher",
            "course::101::enrollment_type::student", "course::102",
            "course::102::enrollment_type::student",
            "course::101::group::g1", "account::5::group::g2">>

(***************************************************************************)
(* C4: pre_spawn_start on the snapshot of a successful login sets          *)
(* OAUTH2_ACCESS_TOKEN to the snapshot's access token and, for each of     *)
(* login_id, name, sortable_name, primary_email the stored user profile    *)
(* has, OAUTH2_<FIELD> to its value; without auth state it sets nothing.   *)
(***************************************************************************)
C4_SpawnerEnvironment ==
    \A a \in Attempts :
        /\ pc[a] = "spawned_without_state" => environment[a] = EmptyDict
        /\ pc[a] = "spawned" =>
              LET auth_state == auth_model[a].auth_state
                  user == auth_state[user_auth_state_key]
              IN  /\ "OAUTH2_ACCESS_TOKEN" \in DOMAIN environment[a]
                  /\ environment[a]["OAUTH2_ACCESS_TOKEN"] = auth_state["access_token"]
                  /\ \A k \in IdentityFields \cap DOMAIN user :
                        /\ "OAUTH2_" \o Upper(k) \in DOMAIN environment[a]
                        /\ environment[a]["OAUTH2_" \o Upper(k)] = user[k]

(***************************************************************************)
(* C5: in both identity modes a login that succeeds has fetched the        *)
(* groups and the courses before the snapshot is assembled, and the        *)
(* snapshot's courses and groups are the fetched course list and the       *)
(* identifiers derived from what was fetched.                              *)
(***************************************************************************)
C5_FetchedBeforeAssembly ==
    \A a \in Attempts :
        Finished(a) =>
            /\ IsPrefix(<<groups_url>>, SubSeq(requests[a], 2, Len(requests[a])))
            /\ \E i \in DOMAIN requests[a] : requests[a][i] = courses_url
            /\ auth_model[a].auth_state["courses"] = RecordsOf(a, courses_url)
            /\ \E cg \in groups_from_canvas_courses(RecordsOf(a, courses_url),
                                                    config.canvas_course_key),
                  sg \in groups_from_canvas_groups(RecordsOf(a, groups_url)) :
                   auth_model[a].auth_state["groups"] = cg \o sg

\* a failed attempt has returned nothing
C6_NothingReturnedOnError ==
    \A a \in Attempts : pc[a] = "error" => auth_model[a] = Unset

\* a failed attempt stays failed and asks for nothing more
C6_ErrorIsFinal ==
    \A a \in Attempts :
        pc[a] = "error" =>
            /\ pc'[a] = "error"
            /\ requests'[a] = requests[a]
            /\ auth_model'[a] = auth_model[a]

(***************************************************************************)
(* C6: an attempt one of whose stages fails ends in an error, returns no   *)
(* auth model and no auth-state snapshot, issues no request after the      *)
(* failing one and is not started again.                                   *)
(***************************************************************************)
C6_AllOrNothing == []C6_NothingReturnedOnError /\ [][C6_ErrorIsFinal]_vars

C6_Witness ==
    /\ pc["a1"] = "error"
    /\ fetching["a1"] = "courses"
    /\ Len(self_groups["a1"]) > 0
    /\ Len(all_data["a1"]) > 0

\* the auth models attempt a may return when it runs alone
C10_Alone(a) ==
    {[name |-> normalize_username(canvas[a].profile[config.username_claim],
                                  config.strip_email_domain),
      admin |-> IF normalize_username(canvas[a].profile[config.username_claim],
                                      config.strip_email_domain) \in config.admin_users
                THEN [kind |-> "bool", val |-> TRUE] ELSE Null,
      auth_state |-> build_auth_state_dict(token_info[a],
                        [user |-> canvas[a].profile, groups |-> cg \o sg,
                         courses |-> RecordsOf(a, courses_url)])] :
        cg \in groups_from_canvas_courses(RecordsOf(a, courses_url),
                                          config.canvas_course_key),
        sg \in groups_from_canvas_groups(RecordsOf(a, groups_url))}

(***************************************************************************)
(* C10: two attempts interleaved at their network suspension points do not *)
(* interfere: what an attempt holds and returns is what it gets alone from *)
(* the answers to its own token, no record of the other attempt among it,  *)
(* and its requests are the profile's, then the whole groups loop, then    *)
(* the whole courses loop.                                                 *)
(***************************************************************************)
C10_NoInterference ==
    \A a \in Attempts :
        ProfileMode =>
            /\ IsPrefix(requests[a],
                        <<userdata_url>> \o Twice(ChainOf(a, groups_url))
                                         \o Twice(ChainOf(a, courses_url)))
            /\ IF fetching[a] = "courses"
               THEN /\ self_groups[a] = RecordsOf(a, groups_url)
                    /\ IsPrefix(all_data[a], RecordsOf(a, courses_url))
               ELSE IsPrefix(all_data[a], RecordsOf(a, groups_url))
            /\ Finished(a) => auth_model[a] \in C10_Alone(a)

C10_Witness ==
    /\ ProfileMode
    /\ canvas["a1"] = WorldA /\ canvas["a2"] = WorldB
    /\ pc["a1"] = "await_link" /\ fetching["a1"] = "courses" /\ Len(all_data["a1"]) = 2
    /\ pc["a2"] = "done"

====
